---- MODULE Spec2Model ----
(***************************************************************************)
(* The backend-service supervisor of starbox-client: class ServerManager   *)
(* (service-manager.ts, here src/unnamed/part_001) and its callers in the  *)
(* Electron main process (src/unnamed/part_002).                           *)
(*                                                                         *)
(* ServerManager is a singleton whose methods are async functions run on   *)
(* one JavaScript event loop.  A call runs without interruption from one   *)
(* `await` to the next, so every action below is one such run: it starts   *)
(* where a call was made or where an awaited promise resolved and ends at  *)
(* the next await (or at the return).  Several calls can be suspended at   *)
(* the same time; the model keeps one record per caller.                   *)
(***************************************************************************)
EXTENDS Integers, Sequences, FiniteSets, TLC

VARIABLES
    serverProcess,  \* this.serverProcess: 0 is null, else an index into procs
    port,           \* this.port
    serverReady,    \* this.serverReady
    platform,       \* process.platform
    serverExists,   \* fs.existsSync(serverPath): the executable is installed
    spawnOk,        \* the OS creates a process from the executable when asked
    procs,          \* every child process spawned so far, in spawn order
    occupant,       \* who else holds the ports the service may be given
    task,           \* the callers: position and locals of each call
    nstarts         \* Start() calls that may still get past the guard (bounds the model)

vars == <<serverProcess, port, serverReady, platform, serverExists, spawnOk,
          procs, occupant, task, nstarts>>

(***************************************************************************)
(* Bounds of the model.                                                    *)
(***************************************************************************)
NumTasks == 2
MaxStarts == 2
MaxOccOffset == 0
MaxArgOffset == 1

(***************************************************************************)
(* Program constants.                                                      *)
(***************************************************************************)
DefaultPort == 23450
maxKillAttempts == 3

Tasks == 1..NumTasks
\* process.platform; "darwin" takes the branches of "linux" in every method
\* modelled here (the two differ in the text of the reap commands only).
Platforms == {"win32", "linux"}
OccPorts == DefaultPort..(DefaultPort + MaxOccOffset)
\* 0 stands for a call without the optional port argument
PortArgs == {0} \cup (DefaultPort..(DefaultPort + MaxArgOffset))

\* A port holder that is not a child of this supervisor:
\*   "stale"   an old starbox-server, which the reap commands can kill,
\*   "dying"   one that was killed and has not released the port yet,
\*   "foreign" an unrelated process that no reap command can kill.
OccKinds == {"none", "stale", "dying", "foreign"}

IdleTask ==
    [op |-> "none", pc |-> "idle", arg |-> 0, inuse |-> FALSE, pid |-> 0,
     attempt |-> 0, res |-> "", spawned |-> 0, sigs |-> <<>>, reaps |-> 0,
     p0 |-> 0, conc |-> {}, rejected |-> FALSE, status |-> "", req |-> ""]

InFlight(u) == task[u].pc \notin {"idle", "done"}

\* The record of a call that has returned res: its locals are gone.
Returned(r, res) ==
    [r EXCEPT !.pc = "done", !.res = res, !.arg = 0, !.inuse = FALSE,
              !.pid = 0, !.attempt = 0]

StartOf(t) == task[t].op = "start"
StopOf(t) == task[t].op = "stop"
Done(t) == task[t].pc = "done"

\* The record of caller t becomes r.
SetTask(t, r) == [u \in Tasks |-> IF u = t THEN r ELSE task[u]]

\* Caller t makes a new call, whose record is r.  conc remembers which
\* calls of the others were in flight when a call was made; a caller that
\* makes a new call is dropped from the others' sets.
CallTask(t, r) ==
    [u \in Tasks |->
        IF u = t
        THEN [r EXCEPT !.conc = {v \in Tasks \ {t} : InFlight(v)}]
        ELSE [task[u] EXCEPT !.conc = @ \ {t}]]

(***************************************************************************)
(* The operating system, as far as the supervisor can observe it.          *)
(***************************************************************************)
\* A child process is "alive", a "zombie" (dead, its 'exit' event not yet
\* emitted), "gone", or "nopid": the ChildProcess object that spawn()
\* returns when the OS refused to create the process, which has no pid
\* and whose 'error' event is emitted later.
Alive(i) == i \in DOMAIN procs /\ procs[i].st = "alive"

\* A test that takes every handle to have a pid.
HasPidAlways(i) == TRUE

\* this.serverProcess.pid is set.
HasPid(i) == i \in DOMAIN procs /\ procs[i].st # "nopid"

\* isPortInUse: binding a throwaway listener to 127.0.0.1:q fails.
isPortInUse(q) ==
    \/ q \in OccPorts /\ occupant[q] # "none"
    \/ \E i \in DOMAIN procs :
          procs[i].st = "alive" /\ procs[i].listening /\ procs[i].lport = q

\* isProcessRunning: process.kill(pid, 0) does not throw.  A child that
\* has died stays a zombie until the event loop has reaped it, which is
\* when its 'exit' event is emitted; signal 0 still reaches a zombie.  On
\* Windows the existence check fails as soon as the process has exited.
isProcessRunning(pid) ==
    /\ pid \in DOMAIN procs
    /\ \/ procs[pid].st = "alive"
       \/ platform # "win32" /\ procs[pid].st = "zombie"

Die(ps, i) == [ps EXCEPT ![i].st = "zombie", ![i].listening = FALSE]

\* What a termination signal sent to process i can lead to: the process
\* dies, or it is still there (it ignores the signal, or is slow to die).
SignalOutcomes(ps, i) ==
    IF i \in DOMAIN ps /\ ps[i].st = "alive" THEN {ps, Die(ps, i)} ELSE {ps}

\* A reset that clears the handle and keeps the readiness flag.
resetKeepsReady == [serverProcess |-> 0, serverReady |-> serverReady]

\* A reset that clears the readiness flag and keeps the handle.
resetKeepsHandle == [serverProcess |-> serverProcess, serverReady |-> FALSE]

\* resetServerState: the values it assigns.
resetServerState == [serverProcess |-> 0, serverReady |-> FALSE]

(***************************************************************************)
(* start(port?)                                                            *)
(***************************************************************************)
\* A start() without the guard on the handle.
StartGuardOff == FALSE

\* `if (this.serverProcess) return`
StartGuard == serverProcess # 0

\* The catch block of start(): the error is logged, serverReady is
\* cleared, and nothing is thrown on to the caller of start().
startCatch == [serverReady |-> FALSE, rejected |-> FALSE]

\* spawnServerProcess, run with this.port = pv.  getServerPath throws when
\* the executable is missing; start() catches it (res "threw").
\* Otherwise spawn() is called with --port pv and what it returns becomes
\* the handle, whether or not the OS created a process.
spawnServerProcess(t, pv) ==
    /\ port' = pv
    /\    IF serverExists
          THEN /\ procs' = Append(procs,
                      [st |-> IF spawnOk THEN "alive" ELSE "nopid",
                       lport |-> pv, listening |-> FALSE, unheard |-> FALSE,
                       notified |-> FALSE, extsig |-> ""])
               /\ serverProcess' = Len(procs) + 1
               /\ serverReady' = serverReady
               /\ task' = SetTask(t, Returned(
                      [task[t] EXCEPT !.spawned = Len(procs) + 1], "spawned"))
          ELSE /\ procs' = procs
               /\ serverProcess' = serverProcess
               /\ serverReady' = startCatch.serverReady
               /\ task' = SetTask(t, Returned(
                      [task[t] EXCEPT !.rejected = startCatch.rejected],
                      "threw"))

\* The call: the guard, the port argument, and the first probe, whose
\* bind attempt is made before the call is suspended.
StartCall(t, a) ==
    /\ ~InFlight(t)
    /\ IF StartGuard
       THEN /\ task' = CallTask(t, Returned(
                   [IdleTask EXCEPT !.op = "start"], "noop"))
            /\ UNCHANGED <<serverProcess, port, serverReady, nstarts>>
       ELSE /\ nstarts > 0
            /\ nstarts' = nstarts - 1
            /\ port' = IF a # 0 THEN a ELSE port
            /\ task' = CallTask(t, [IdleTask EXCEPT !.op = "start",
                   !.pc = "probe1", !.arg = a, !.p0 = port',
                   !.inuse = isPortInUse(port')])
            /\ UNCHANGED <<serverProcess, serverReady>>
    /\ UNCHANGED <<platform, serverExists, spawnOk, procs, occupant>>

\* prepareForStart after `await this.isPortInUse(this.port)`.
StartProbe1(t) ==
    /\ task[t].op = "start" /\ task[t].pc = "probe1"
    /\ IF task[t].inuse
       THEN /\ task' = SetTask(t, [task[t] EXCEPT !.pc = "killport",
                   !.arg = port])
            /\ UNCHANGED <<serverProcess, port, serverReady, procs>>
       ELSE spawnServerProcess(t, port)
    /\ UNCHANGED <<platform, serverExists, spawnOk, occupant, nstarts>>

\* executeCleanupCommand('port', q): the holder of port q is looked up and
\* sent a forced kill.  success is false when nothing listens on q or the
\* kill command fails.  A killed holder may keep the port a little longer.
KillByPort(q) ==
    LET own == {i \in DOMAIN procs : procs[i].st = "alive"
                   /\ procs[i].listening /\ procs[i].lport = q}
        failed == [success |-> FALSE, procs |-> procs, occupant |-> occupant]
    IN  {failed}
        \cup {[success |-> TRUE, procs |-> Die(procs, i),
               occupant |-> occupant] : i \in own}
        \cup (IF q \in OccPorts /\ occupant[q] \in {"stale", "dying"}
              THEN {[success |-> TRUE, procs |-> procs,
                     occupant |-> [occupant EXCEPT ![q] = k]] :
                        k \in {"none", "dying"}}
              ELSE {})

\* executeCleanupCommand('name', 'starbox-server'): every process whose name
\* matches is sent a kill.  The command line ends in `|| true` (`|| exit
\* /b 0` on Windows), so it succeeds with or without a match; success is
\* false only when the shell command could not be run at all.
KillByName ==
    {[success |-> FALSE, procs |-> procs, occupant |-> occupant],
     [success |-> TRUE, procs |-> procs, occupant |-> occupant],
     [success |-> TRUE,
      procs |->
         [i \in DOMAIN procs |->
             IF procs[i].st = "alive"
             THEN [procs[i] EXCEPT !.st = "zombie", !.listening = FALSE]
             ELSE procs[i]],
      occupant |->
         [q \in OccPorts |->
             IF occupant[q] \in {"stale", "dying"} THEN "none"
             ELSE occupant[q]]]}

\* prepareForStart after `await this.killProcessOnPort(this.port)`.
StartKillPort(t) ==
    /\ task[t].op = "start" /\ task[t].pc = "killport"
    /\ UNCHANGED <<serverProcess, port, serverReady, platform, serverExists, spawnOk, nstarts>>
    /\ \E r \in KillByPort(task[t].arg) :
          /\ procs' = r.procs
          /\ occupant' = r.occupant
          /\ IF r.success
             THEN task' = SetTask(t, [task[t] EXCEPT !.pc = "probe2",
                      !.arg = 0, !.inuse = isPortInUse(port)'])
             ELSE task' = SetTask(t, [task[t] EXCEPT !.pc = "killname",
                      !.arg = 0, !.reaps = @ + 1])

\* prepareForStart after `await this.cleanupOldProcesses()`.
StartKillName(t) ==
    /\ task[t].op = "start" /\ task[t].pc = "killname"
    /\ UNCHANGED <<serverProcess, port, serverReady, platform, serverExists, spawnOk, nstarts>>
    /\ \E r \in KillByName :
          /\ procs' = r.procs
          /\ occupant' = r.occupant
    /\ task' = SetTask(t, [task[t] EXCEPT !.pc = "probe2",
           !.inuse = isPortInUse(port)'])

\* A fall-back that counts from the default port again.
portFromDefault(stillInUse) ==
    IF stillInUse THEN DefaultPort + 1 ELSE DefaultPort

\* `if (stillInUse) this.port += 1`: the port after the second probe.
portAfterProbe(stillInUse) == IF stillInUse THEN port + 1 ELSE port

\* prepareForStart after the second probe, then spawnServerProcess.
StartProbe2(t) ==
    /\ task[t].op = "start" /\ task[t].pc = "probe2"
    /\ spawnServerProcess(t, portAfterProbe(task[t].inuse))
    /\ UNCHANGED <<platform, serverExists, spawnOk, occupant, nstarts>>

(***************************************************************************)
(* stop()                                                                  *)
(***************************************************************************)
\* A guard on the readiness flag in place of the handle.
StopGuardOnReady == ~serverReady

\* `if (!this.serverProcess) return true`
StopGuard == serverProcess = 0

\* The signal of one attempt of attemptToStopProcess: on Windows a
\* taskkill of the saved pid; elsewhere SIGTERM on the first attempt and
\* SIGKILL on the later ones, sent through this.serverProcess if it is
\* still set.  to = 0: nothing is sent.
StopSignal(pid, attempt) ==
    IF platform = "win32"
    THEN [to |-> pid, sig |-> "taskkill"]
    ELSE [to |-> serverProcess,
          sig |-> IF attempt = 1 THEN "SIGTERM" ELSE "SIGKILL"]

\* A loop bound that lets one attempt more through.
MoreAttemptsOffByOne(attempt) == attempt <= maxKillAttempts

\* `attempt <= this.maxKillAttempts`, for the attempt after `attempt`.
MoreAttempts(attempt) == attempt < maxKillAttempts

\* stop() up to its first await: the guard, the pid test (`if (!pid)`:
\* resetServerState and false), and the first attempt's signal.
StopCall(t) ==
    /\ ~InFlight(t)
    /\ IF StopGuard
       THEN /\ task' = CallTask(t, Returned(
                   [IdleTask EXCEPT !.op = "stop"], "true"))
            /\ UNCHANGED <<serverProcess, serverReady, procs>>
       ELSE IF ~HasPid(serverProcess)
       THEN /\ serverProcess' = resetServerState.serverProcess
            /\ serverReady' = resetServerState.serverReady
            /\ task' = CallTask(t, Returned(
                   [IdleTask EXCEPT !.op = "stop"], "false"))
            /\ UNCHANGED procs
       ELSE /\ procs' \in SignalOutcomes(procs, StopSignal(serverProcess, 1).to)
            /\ task' = CallTask(t, [IdleTask EXCEPT !.op = "stop",
                   !.pc = "wait", !.pid = serverProcess, !.attempt = 1,
                   !.sigs = <<StopSignal(serverProcess, 1)>>])
            /\ UNCHANGED <<serverProcess, serverReady>>
    /\ UNCHANGED <<port, platform, serverExists, spawnOk, occupant, nstarts>>

\* attemptToStopProcess after the 500 ms wait of one attempt.
StopWait(t) ==
    /\ task[t].op = "stop" /\ task[t].pc = "wait"
    /\ IF ~isProcessRunning(task[t].pid)
       THEN /\ serverProcess' = resetServerState.serverProcess
            /\ serverReady' = resetServerState.serverReady
            /\ task' = SetTask(t, Returned(task[t], "true"))
            /\ UNCHANGED procs
       ELSE IF MoreAttempts(task[t].attempt)
       THEN LET s == StopSignal(task[t].pid, task[t].attempt + 1)
            IN  /\ procs' \in SignalOutcomes(procs, s.to)
                /\ task' = SetTask(t, [task[t] EXCEPT !.attempt = @ + 1,
                       !.sigs = IF s.to # 0 THEN Append(@, s) ELSE @])
                /\ UNCHANGED <<serverProcess, serverReady>>
       ELSE /\ task' = SetTask(t, [task[t] EXCEPT !.pc = "final",
                   !.reaps = @ + 1])
            /\ UNCHANGED <<serverProcess, serverReady, procs>>
    /\ UNCHANGED <<port, platform, serverExists, spawnOk, occupant, nstarts>>

\* A final cleanup that reports what the reap reported.
finalCleanupBySuccess(success) == IF success THEN "true" ELSE "false"

\* finalCleanupAttempt: result.success selects a log line only, and true is
\* returned.  (cleanupOldProcesses catches every error itself, so the
\* catch block that returns false is never entered.)
finalCleanupResult(success) == "true"

\* finalCleanupAttempt after `await this.cleanupOldProcesses()`.
StopFinal(t) ==
    /\ task[t].op = "stop" /\ task[t].pc = "final"
    /\ \E r \in KillByName :
          /\ procs' = r.procs
          /\ occupant' = r.occupant
          /\ task' = SetTask(t, Returned(task[t], finalCleanupResult(r.success)))
    /\ serverProcess' = resetServerState.serverProcess
    /\ serverReady' = resetServerState.serverReady
    /\ UNCHANGED <<port, platform, serverExists, spawnOk, nstarts>>

(***************************************************************************)
(* isRunning(), isReady(timeout) and checkBackendReady()                   *)
(***************************************************************************)
\* isRunning(): the value it returns.
isRunning ==
    /\ serverProcess # 0 /\ HasPid(serverProcess)
    /\ platform # "win32" => isProcessRunning(serverProcess)

\* isRunning(): the state it leaves (resetServerState when the existence
\* check fails).
isRunningState ==
    IF serverProcess # 0 /\ HasPid(serverProcess) /\ ~isRunning
    THEN resetServerState
    ELSE [serverProcess |-> serverProcess, serverReady |-> serverReady]

\* checkBackendReady: `i < maxAttempts`.
maxAttempts == 120

\* A loop bound that lets one round more through.
MoreChecksOffByOne(i) == i <= maxAttempts

MoreChecks(i) == i < maxAttempts

\* GET http://localhost:q/health answers 200: the service, or an old
\* instance of it, listens on q.  (The request can always fail or time out.)
HealthOk(q) ==
    \/ q \in OccPorts /\ occupant[q] = "stale"
    \/ \E i \in DOMAIN procs :
          procs[i].st = "alive" /\ procs[i].listening /\ procs[i].lport = q

\* One round of the loop of checkBackendReady, up to the first await that
\* suspends it: isReady() answers from the cached flag or without a
\* process, or sends the health request.  r is the caller's record, ready
\* and proc the values of serverReady and serverProcess.
CheckRound(r, ready, proc) ==
    IF ~MoreChecks(r.attempt) THEN [r EXCEPT !.pc = "done", !.res = "false"]
    ELSE IF ready THEN [r EXCEPT !.pc = "done", !.res = "true"]
    ELSE IF proc = 0 THEN [r EXCEPT !.pc = "sleep"]
    ELSE [r EXCEPT !.pc = "health", !.arg = port]

\* checkBackendReady(): the isRunning() test and the first round.
CheckCall(t) ==
    /\ ~InFlight(t)
    /\ serverProcess' = isRunningState.serverProcess
    /\ serverReady' = isRunningState.serverReady
    /\ IF ~isRunning
       THEN task' = CallTask(t, [IdleTask EXCEPT !.op = "check",
                !.pc = "done", !.res = "false"])
       ELSE task' = CallTask(t, CheckRound([IdleTask EXCEPT !.op = "check"],
                serverReady, serverProcess))
    /\ UNCHANGED <<port, platform, serverExists, spawnOk, procs, occupant, nstarts>>

\* isReady after the health request has been answered, has failed or has
\* timed out; then the progress message and the sleep.
CheckHealth(t) ==
    /\ task[t].op = "check" /\ task[t].pc = "health"
    /\ \E ok \in {FALSE, HealthOk(task[t].arg)} :
          IF ok
          THEN /\ serverReady' = TRUE
               /\ task' = SetTask(t, [task[t] EXCEPT !.pc = "done",
                      !.res = "true", !.arg = 0])
          ELSE /\ serverReady' = serverReady
               /\ task' = SetTask(t, [task[t] EXCEPT !.pc = "sleep", !.arg = 0])
    /\ UNCHANGED <<serverProcess, port, platform, serverExists, spawnOk, procs, occupant, nstarts>>

\* checkBackendReady after the sleep of one round: the next round.
CheckSleep(t) ==
    /\ task[t].op = "check" /\ task[t].pc = "sleep"
    /\ task' = SetTask(t, CheckRound([task[t] EXCEPT !.attempt = @ + 1],
           serverReady, serverProcess))
    /\ UNCHANGED <<serverProcess, port, serverReady, platform, serverExists, spawnOk, procs, occupant, nstarts>>

\* isReady(timeout), called on its own: what it can return in the current
\* state.  The cached flag answers true, no handle answers false, and
\* otherwise the answer is that of the health request, which can fail.
isReadyResults ==
    IF serverReady THEN {TRUE}
    ELSE IF serverProcess = 0 THEN {FALSE}
    ELSE {FALSE, HealthOk(port)}

\* isReady(timeout) up to its await: the two early returns, or the health
\* request to the current port (arg is the port polled).
IsReadyCall(t) ==
    /\ ~InFlight(t)
    /\ task' = CallTask(t,
          IF serverReady
          THEN [IdleTask EXCEPT !.op = "isready", !.pc = "done", !.res = "true"]
          ELSE IF serverProcess = 0
          THEN [IdleTask EXCEPT !.op = "isready", !.pc = "done", !.res = "false"]
          ELSE [IdleTask EXCEPT !.op = "isready", !.pc = "poll", !.arg = port,
                                !.req = "open"])
    /\ UNCHANGED <<serverProcess, port, serverReady, platform, serverExists, spawnOk, procs, occupant, nstarts>>

\* How the health request to port q can end: a network error, the
\* timeout, or an HTTP status: 200 or 503 from the service (or an old
\* instance of it), 404 from an unrelated server that holds the port.
PollOutcomes(q) ==
    {"error", "timeout"}
    \cup (IF HealthOk(q) THEN {"200", "503"} ELSE {})
    \cup (IF q \in OccPorts /\ occupant[q] = "foreign" THEN {"404"} ELSE {})

\* A test that takes every HTTP answer for readiness.
AnyAnswerOk(o) == o \notin {"error", "timeout"}

\* `res.statusCode === 200`
StatusOk(o) == o = "200"

\* A timeout handler that resolves false and leaves the request open.
timeoutIgnoresRequest(o) == IF o = "timeout" THEN "open" ELSE "ended"

\* The request after the event o: the timeout handler calls req.destroy()
\* before it resolves; an answer or an error ends the request.
requestAfter(o) == IF o = "timeout" THEN "destroyed" ELSE "ended"

\* An event of the open request of isReady(timeout): it is answered, fails
\* or times out.  serverReady is set on a 200 answer only.  While the call
\* is waiting the event resolves it (status records how the request
\* ended); resolving a call that has returned does nothing.
IsReadyPoll(t) ==
    /\ task[t].op = "isready" /\ task[t].req = "open"
    /\ \E o \in PollOutcomes(task[t].arg) :
          /\ serverReady' = IF StatusOk(o) THEN TRUE ELSE serverReady
          /\ task' = SetTask(t,
                 IF task[t].pc = "poll"
                 THEN [task[t] EXCEPT !.pc = "done", !.status = o,
                          !.res = IF StatusOk(o) THEN "true" ELSE "false",
                          !.req = requestAfter(o)]
                 ELSE [task[t] EXCEPT !.req = requestAfter(o)])
    /\ UNCHANGED <<serverProcess, port, platform, serverExists, spawnOk, procs, occupant, nstarts>>

\* isRunning(), a synchronous call.
IsRunningCall(t) ==
    /\ ~InFlight(t)
    /\ task' = CallTask(t, [IdleTask EXCEPT !.op = "isrunning",
           !.pc = "done", !.res = IF isRunning THEN "true" ELSE "false"])
    /\ serverProcess' = isRunningState.serverProcess
    /\ serverReady' = isRunningState.serverReady
    /\ UNCHANGED <<port, platform, serverExists, spawnOk, procs, occupant, nstarts>>

(***************************************************************************)
(* Events of the child processes and of the other port holders.            *)
(***************************************************************************)
\* The service binds the port it was launched with, if the port is free.
ProcListen(i) ==
    /\ Alive(i) /\ ~procs[i].listening
    /\ ~isPortInUse(procs[i].lport)
    /\ procs' = [procs EXCEPT ![i].listening = TRUE]
    /\ UNCHANGED <<serverProcess, port, serverReady, platform, serverExists, spawnOk, occupant, task, nstarts>>

\* The service dies (a crash, a failed bind, a signal that took its time).
ProcDie(i) ==
    /\ Alive(i)
    /\ procs' = Die(procs, i)
    /\ UNCHANGED <<serverProcess, port, serverReady, platform, serverExists, spawnOk, occupant, task, nstarts>>

\* Signals that a process other than the supervisor can send to the child.
OutsideSignals == {"SIGTERM", "SIGKILL", "SIGINT"}

\* The service is killed by a signal that the supervisor did not send
\* (the user, the OOM killer, another program); extsig remembers it.
ProcKilled(i, sig) ==
    /\ Alive(i)
    /\ procs' = [Die(procs, i) EXCEPT ![i].extsig = sig]
    /\ UNCHANGED <<serverProcess, port, serverReady, platform, serverExists, spawnOk, occupant, task, nstarts>>

\* `code` of the 'exit' event when the child was terminated by a signal
\* (null in the source).
NoCode == -1

\* The (code, signal) pairs that the 'exit' event of the dead child i can
\* carry.  A child killed from outside reports that signal (on Windows,
\* where there are no signals, exit code 1).  A child that was not killed
\* from outside has exited by itself with a code, or died of a signal of
\* the supervisor; a taskkill shows as exit code 1 without a signal.
ExitStatuses(i) ==
    IF procs[i].extsig # ""
    THEN IF platform = "win32"
         THEN {[code |-> 1, signal |-> ""]}
         ELSE {[code |-> NoCode, signal |-> procs[i].extsig]}
    ELSE {[code |-> 0, signal |-> ""], [code |-> 1, signal |-> ""]}
         \cup (IF platform = "win32" THEN {}
               ELSE {[code |-> NoCode, signal |-> "SIGTERM"],
                     [code |-> NoCode, signal |-> "SIGKILL"]})

\* The 'exit' listener's test for the warning about an abnormal exit:
\* `code !== 0 && signal !== 'SIGTERM' && signal !== 'SIGKILL'`.
exitWarns(e) == e.code # 0 /\ e.signal # "SIGTERM" /\ e.signal # "SIGKILL"

\* The 'exit' listener of child i: resetServerState().
OnExit(i) ==
    /\ i \in DOMAIN procs /\ procs[i].st = "zombie"
    /\ procs' = [procs EXCEPT ![i].st = "gone"]
    /\ serverProcess' = resetServerState.serverProcess
    /\ serverReady' = resetServerState.serverReady
    /\ UNCHANGED <<port, platform, serverExists, spawnOk, occupant, task, nstarts>>

\* The 'error' listener of child i, emitted when the process could not be
\* created: resetServerState().
OnError(i) ==
    /\ i \in DOMAIN procs /\ procs[i].st = "nopid"
    /\ procs' = [procs EXCEPT ![i].st = "gone"]
    /\ serverProcess' = resetServerState.serverProcess
    /\ serverReady' = resetServerState.serverReady
    /\ UNCHANGED <<port, platform, serverExists, spawnOk, occupant, task, nstarts>>

\* An output chunk of a child: the stream it arrives on, whether it holds
\* 'Backend server is ready', and whether it holds one of the markers
\* ' INFO ', 'INFO:', 'DEBUG:'.
Chunks == [stream : {"stdout", "stderr"}, phrase : BOOLEAN, info : BOOLEAN]

\* A test that takes the phrase on either stream, marker or not.
PhraseSetsReady(c) == c.phrase

\* The chunk makes its 'data' listener assign serverReady = true: on
\* stdout the phrase is enough, on stderr the phrase is looked for only in
\* a chunk that holds an informational marker.
SetsReady(c) == c.phrase /\ (c.stream = "stdout" \/ c.info)

\* The chunk makes its 'data' listener send 'backend-ready' to the window
\* (if one is open): the send is in the stderr listener only, next to the
\* assignment of serverReady.
Notifies(c) == c.stream = "stderr" /\ c.info /\ c.phrase

\* The stdout/stderr 'data' listener of child i on chunk c.  unheard
\* remembers that the child has emitted the phrase in a chunk that did not
\* set readiness, notified that 'backend-ready' has been sent for it.
OnOutput(i, c) ==
    /\ i \in DOMAIN procs /\ procs[i].st \in {"alive", "zombie"}
    /\ serverReady' = IF SetsReady(c) THEN TRUE ELSE serverReady
    /\ procs' = [procs EXCEPT ![i].unheard = @ \/ (c.phrase /\ ~SetsReady(c)),
                              ![i].notified = @ \/ Notifies(c)]
    /\ UNCHANGED <<serverProcess, port, platform, serverExists, spawnOk, occupant, task, nstarts>>

\* The listener on a chunk that sets readiness: every such chunk has the
\* effect of this one.  (The other chunks leave the state of the supervisor
\* as it is; the specifications that do not observe the output take this
\* action only.)
ReadyChunk == [stream |-> "stdout", phrase |-> TRUE, info |-> FALSE]
OnReadyOutput(i) == OnOutput(i, ReadyChunk)

\* A killed port holder releases its port.
OccupantGone(q) ==
    /\ occupant[q] = "dying"
    /\ occupant' = [occupant EXCEPT ![q] = "none"]
    /\ UNCHANGED <<serverProcess, port, serverReady, platform, serverExists, spawnOk, procs, task, nstarts>>

(***************************************************************************)
(* The specification.                                                      *)
(***************************************************************************)
Init ==
    /\ serverProcess = 0
    /\ port = DefaultPort
    /\ serverReady = FALSE
    /\ platform \in Platforms
    /\ serverExists \in BOOLEAN
    /\ spawnOk \in {b \in BOOLEAN : b => serverExists}
    /\ procs = <<>>
    /\ occupant \in [OccPorts -> {"none", "stale", "foreign"}]
    /\ task = [t \in Tasks |-> IdleTask]
    /\ nstarts = MaxStarts

Next ==
    \/ \E t \in Tasks, a \in PortArgs : StartCall(t, a)
    \/ \E t \in Tasks : StartProbe1(t)
    \/ \E t \in Tasks : StartKillPort(t)
    \/ \E t \in Tasks : StartKillName(t)
    \/ \E t \in Tasks : StartProbe2(t)
    \/ \E t \in Tasks : StopCall(t)
    \/ \E t \in Tasks : StopWait(t)
    \/ \E t \in Tasks : StopFinal(t)
    \/ \E i \in DOMAIN procs : ProcListen(i)
    \/ \E i \in DOMAIN procs : ProcDie(i)
    \/ \E i \in DOMAIN procs : OnExit(i)
    \/ \E i \in DOMAIN procs : OnError(i)
    \/ \E i \in DOMAIN procs : OnReadyOutput(i)
    \/ \E q \in OccPorts : OccupantGone(q)

Spec == Init /\ [][Next]_vars

\* The port-conflict scenario: the default port is held by a foreign process
\* that no reap can kill, and one more Start() can be made.
InitConflict ==
    /\ serverProcess = 0
    /\ port = DefaultPort
    /\ serverReady = FALSE
    /\ platform = "linux"
    /\ serverExists = TRUE
    /\ spawnOk \in BOOLEAN
    /\ procs = <<>>
    /\ occupant = [q \in OccPorts |-> IF q = DefaultPort THEN "foreign" ELSE "none"]
    /\ task = [t \in Tasks |-> IdleTask]
    /\ nstarts = MaxStarts + 1

\* Start() calls only, with the events of the environment.
NextStart ==
    \/ \E t \in Tasks, a \in PortArgs : StartCall(t, a)
    \/ \E t \in Tasks : StartProbe1(t)
    \/ \E t \in Tasks : StartKillPort(t)
    \/ \E t \in Tasks : StartKillName(t)
    \/ \E t \in Tasks : StartProbe2(t)
    \/ \E i \in DOMAIN procs : ProcListen(i)
    \/ \E i \in DOMAIN procs : ProcDie(i)
    \/ \E i \in DOMAIN procs : OnExit(i)
    \/ \E i \in DOMAIN procs : OnError(i)
    \/ \E i \in DOMAIN procs : OnReadyOutput(i)

SpecConflict == InitConflict /\ [][NextStart]_vars

\* The application's own sequence: startBackendServer (start() and then
\* checkBackendReady()) by one caller, and after the readiness wait has
\* ended a stop() by another (the quit handlers).
NextReady ==
    \/ task[1].op = "none" /\ StartCall(1, 0)
    \/ StartProbe1(1)
    \/ StartKillPort(1)
    \/ StartKillName(1)
    \/ StartProbe2(1)
    \/ StartOf(1) /\ Done(1) /\ CheckCall(1)
    \/ CheckHealth(1)
    \/ CheckSleep(1)
    \/ task[1].op = "check" /\ Done(1) /\ task[2].op = "none" /\ StopCall(2)
    \/ StopWait(2)
    \/ StopFinal(2)
    \/ \E i \in DOMAIN procs : ProcListen(i)
    \/ \E i \in DOMAIN procs : ProcDie(i)
    \/ \E i \in DOMAIN procs : OnExit(i)
    \/ \E i \in DOMAIN procs : OnError(i)
    \/ \E i \in DOMAIN procs : OnReadyOutput(i)
    \/ \E q \in OccPorts : OccupantGone(q)

SpecReady == Init /\ [][NextReady]_vars

\* One caller that alternates start() and stop(), as the handler of
\* 'restart-backend-server' does after the start at launch.
NextRestart ==
    \/ (task[1].op = "none" \/ (StopOf(1) /\ Done(1))) /\ StartCall(1, 0)
    \/ StartProbe1(1)
    \/ StartKillPort(1)
    \/ StartKillName(1)
    \/ StartProbe2(1)
    \/ StartOf(1) /\ Done(1) /\ StopCall(1)
    \/ StopWait(1)
    \/ StopFinal(1)
    \/ \E i \in DOMAIN procs : ProcListen(i)
    \/ \E i \in DOMAIN procs : ProcDie(i)
    \/ \E i \in DOMAIN procs : OnExit(i)
    \/ \E i \in DOMAIN procs : OnError(i)
    \/ \E i \in DOMAIN procs : OnReadyOutput(i)
    \/ \E q \in OccPorts : OccupantGone(q)

SpecRestart == Init /\ [][NextRestart]_vars

\* One caller that starts the service and may stop it, and another that
\* asks isReady() and isRunning() at any time (the window's
\* 'get-backend-info' handler, the readiness wait); the children's output
\* is observed chunk by chunk.
NextObserve ==
    \/ task[1].op = "none" /\ StartCall(1, 0)
    \/ StartProbe1(1)
    \/ StartKillPort(1)
    \/ StartKillName(1)
    \/ StartProbe2(1)
    \/ StartOf(1) /\ Done(1) /\ StopCall(1)
    \/ StopWait(1)
    \/ StopFinal(1)
    \/ IsReadyCall(2)
    \/ IsReadyPoll(2)
    \/ IsRunningCall(2)
    \/ \E i \in DOMAIN procs : ProcListen(i)
    \/ \E i \in DOMAIN procs : ProcDie(i)
    \/ \E i \in DOMAIN procs : OnExit(i)
    \/ \E i \in DOMAIN procs : OnError(i)
    \/ \E i \in DOMAIN procs, c \in Chunks : OnOutput(i, c)
    \/ \E q \in OccPorts : OccupantGone(q)

SpecObserve == Init /\ [][NextObserve]_vars

\* startBackendServer, and a start() made again after the readiness wait
\* has ended with false.
NextRetry ==
    \/ task[1].op = "none" /\ StartCall(1, 0)
    \/ StartProbe1(1)
    \/ StartKillPort(1)
    \/ StartKillName(1)
    \/ StartProbe2(1)
    \/ StartOf(1) /\ Done(1) /\ CheckCall(1)
    \/ CheckHealth(1)
    \/ CheckSleep(1)
    \/ task[1].op = "check" /\ task[1].res = "false" /\ StartCall(1, 0)
    \/ \E i \in DOMAIN procs : ProcListen(i)
    \/ \E i \in DOMAIN procs : ProcDie(i)
    \/ \E i \in DOMAIN procs : OnExit(i)
    \/ \E i \in DOMAIN procs : OnError(i)
    \/ \E i \in DOMAIN procs : OnReadyOutput(i)
    \/ \E q \in OccPorts : OccupantGone(q)

SpecRetry == Init /\ [][NextRetry]_vars

\* stop() by any caller at any time, around the start() of one caller.
\* A stop() that is suspended is resumed by the event loop when its timer
\* or its reap command ends: weak fairness of its later steps.
NextStop ==
    \/ StartCall(1, 0)
    \/ StartProbe1(1)
    \/ StartKillPort(1)
    \/ StartKillName(1)
    \/ StartProbe2(1)
    \/ \E t \in Tasks : StopCall(t)
    \/ \E t \in Tasks : StopWait(t)
    \/ \E t \in Tasks : StopFinal(t)
    \/ \E i \in DOMAIN procs : ProcListen(i)
    \/ \E i \in DOMAIN procs : ProcDie(i)
    \/ \E i \in DOMAIN procs : OnExit(i)
    \/ \E i \in DOMAIN procs : OnError(i)
    \/ \E i \in DOMAIN procs : OnReadyOutput(i)
    \/ \E q \in OccPorts : OccupantGone(q)

SpecStop ==
    /\ Init /\ [][NextStop]_vars
    /\ \A t \in Tasks : WF_vars(StopWait(t)) /\ WF_vars(StopFinal(t))

\* A flag that no quit handler ever finds set.
neverProcessed == FALSE

\* appState.isQuittingProcessed: a quit handler has got past its guard.
\* (Where the quit handlers run, stop() is called by them only: a caller
\* that is in stop(), waits for the quit timer or has ended the
\* application is a quit handler.)
isQuittingProcessed == \E t \in Tasks : task[t].op \in {"stop", "quit", "exited"}

\* appState.isQuitting, which the quit handlers set together with
\* isQuittingProcessed.
isQuitting == \E t \in Tasks : task[t].op \in {"stop", "quit", "exited"}

\* The application has exited.
appExited == \E t \in Tasks : task[t].op = "exited"

\* The 'before-quit' handler of the application, run by caller t: unless
\* isQuittingProcessed is set it sets appState.isQuitting and
\* isQuittingProcessed, and if isRunning() it holds the quit back and calls
\* stop(); if not, the quit goes on and the application exits.
BeforeQuit(t) ==
    /\ ~isQuittingProcessed
    /\ IF isRunning
       THEN StopCall(t)
       ELSE /\ task' = CallTask(t, Returned(
                   [IdleTask EXCEPT !.op = "exited"], ""))
            /\ serverProcess' = isRunningState.serverProcess
            /\ serverReady' = isRunningState.serverReady
            /\ UNCHANGED <<port, platform, serverExists, spawnOk, procs,
                           occupant, nstarts>>

\* The 'before-quit' handler on a quit requested by the user when
\* isQuittingProcessed is set: it returns at once without holding the quit
\* back, and the application exits, whatever is still in flight.
BeforeQuitAgain(t) ==
    /\ isQuittingProcessed /\ ~appExited
    /\ task' = SetTask(t, [task[t] EXCEPT !.op = "exited"])
    /\ UNCHANGED <<serverProcess, port, serverReady, platform, serverExists,
                   spawnOk, procs, occupant, nstarts>>

\* The click handler of the tray menu's Exit entry, run by caller t: the
\* same guard and flags; stop() if isRunning(); then, in either case,
\* `setTimeout(() => app.quit(), 300)`.
TrayExit(t) ==
    /\ ~isQuittingProcessed
    /\ IF isRunning
       THEN StopCall(t)
       ELSE /\ ~InFlight(t)
            /\ task' = CallTask(t, Returned(
                   [IdleTask EXCEPT !.op = "quit"], ""))
            /\ serverProcess' = isRunningState.serverProcess
            /\ serverReady' = isRunningState.serverReady
            /\ UNCHANGED <<port, platform, serverExists, spawnOk, procs,
                           occupant, nstarts>>

\* The timer of a quit handler, set after its stop() has returned, calls
\* app.quit(): 'before-quit' is emitted again, its handler finds
\* isQuittingProcessed set and returns, and the application exits, and with
\* it every call and listener.
AppQuit(t) ==
    /\ StopOf(t) \/ task[t].op = "quit"
    /\ Done(t)
    /\ isQuittingProcessed
    /\ task' = SetTask(t, [task[t] EXCEPT !.op = "exited"])
    /\ UNCHANGED <<serverProcess, port, serverReady, platform, serverExists,
                   spawnOk, procs, occupant, nstarts>>

\* startBackendServer by caller 1 and the 'before-quit' handler by caller
\* 2, which can run at any time until the application has exited.
NextQuit ==
    \/ ~appExited /\ task[1].op = "none" /\ StartCall(1, 0)
    \/ ~appExited /\ StartProbe1(1)
    \/ ~appExited /\ StartKillPort(1)
    \/ ~appExited /\ StartKillName(1)
    \/ ~appExited /\ StartProbe2(1)
    \/ ~appExited /\ StartOf(1) /\ Done(1) /\ CheckCall(1)
    \/ ~appExited /\ CheckHealth(1)
    \/ ~appExited /\ CheckSleep(1)
    \/ BeforeQuit(2)
    \/ StopWait(2)
    \/ StopFinal(2)
    \/ AppQuit(2)
    \/ \E i \in DOMAIN procs : ~appExited /\ ProcListen(i)
    \/ \E i \in DOMAIN procs : ~appExited /\ ProcDie(i)
    \/ \E i \in DOMAIN procs : ~appExited /\ OnExit(i)
    \/ \E i \in DOMAIN procs : ~appExited /\ OnError(i)
    \/ \E i \in DOMAIN procs : ~appExited /\ OnReadyOutput(i)
    \/ \E q \in OccPorts : ~appExited /\ OccupantGone(q)

SpecQuit == Init /\ [][NextQuit]_vars

\* The start of the service by caller 1, who can later click Exit in the
\* tray menu, and quit requests handled by caller 2, until the application
\* has exited.  The event loop resumes a suspended stop() and fires the
\* quit timer: weak fairness of those steps.
NextShutdown ==
    \/ ~appExited /\ task[1].op = "none" /\ StartCall(1, 0)
    \/ ~appExited /\ StartProbe1(1)
    \/ ~appExited /\ StartKillPort(1)
    \/ ~appExited /\ StartKillName(1)
    \/ ~appExited /\ StartProbe2(1)
    \/ ~appExited /\ TrayExit(1)
    \/ ~appExited /\ BeforeQuit(2)
    \/ BeforeQuitAgain(2)
    \/ \E t \in Tasks : ~appExited /\ StopWait(t)
    \/ \E t \in Tasks : ~appExited /\ StopFinal(t)
    \/ \E t \in Tasks : ~appExited /\ AppQuit(t)
    \/ \E i \in DOMAIN procs : ~appExited /\ ProcListen(i)
    \/ \E i \in DOMAIN procs : ~appExited /\ ProcDie(i)
    \/ \E i \in DOMAIN procs : ~appExited /\ OnExit(i)
    \/ \E i \in DOMAIN procs : ~appExited /\ OnError(i)
    \/ \E i \in DOMAIN procs : ~appExited /\ OnReadyOutput(i)
    \/ \E q \in OccPorts : ~appExited /\ OccupantGone(q)

SpecShutdown ==
    /\ Init /\ [][NextShutdown]_vars
    /\ \A t \in Tasks :
          /\ WF_vars(~appExited /\ StopWait(t))
          /\ WF_vars(~appExited /\ StopFinal(t))
          /\ WF_vars(~appExited /\ AppQuit(t))

\* The `success` field of the 'restart-backend-server' reply: the try block
\* returns success: true, the catch block success: false, and the catch
\* block runs when stop() or start() has rejected.
restartSuccess(rejected) == IF rejected THEN "failure" ELSE "success"

\* The 'restart-backend-server' handler by caller t, after its
\* `await serverManager.start()`: it replies with `success` and with
\* isRunning(), whose side effect on the handle is part of the step.  The
\* reply is kept in the caller's record: `status` is the success field,
\* `res` stays the outcome of the start() inside.
RestartReturn(t) ==
    /\ StartOf(t) /\ Done(t)
    /\ task' = SetTask(t, [task[t] EXCEPT !.op = "restart",
           !.status = restartSuccess(task[t].rejected)])
    /\ serverProcess' = isRunningState.serverProcess
    /\ serverReady' = isRunningState.serverReady
    /\ UNCHANGED <<port, platform, serverExists, spawnOk, procs, occupant,
                   nstarts>>

\* startBackendServer by caller 2 at application start, then
\* 'restart-backend-server' requests handled by caller 1: stop(), the wait,
\* start(), the reply.
NextRestartBackend ==
    \/ task[2].op = "none" /\ StartCall(2, 0)
    \/ \E t \in Tasks : StartProbe1(t)
    \/ \E t \in Tasks : StartKillPort(t)
    \/ \E t \in Tasks : StartKillName(t)
    \/ \E t \in Tasks : StartProbe2(t)
    \/ /\ StartOf(2) /\ Done(2)
       /\ task[1].op \in {"none", "restart"}
       /\ StopCall(1)
    \/ StopWait(1)
    \/ StopFinal(1)
    \/ StopOf(1) /\ Done(1) /\ StartCall(1, 0)
    \/ RestartReturn(1)
    \/ \E i \in DOMAIN procs : ProcListen(i)
    \/ \E i \in DOMAIN procs : ProcDie(i)
    \/ \E i \in DOMAIN procs : OnExit(i)
    \/ \E i \in DOMAIN procs : OnError(i)
    \/ \E i \in DOMAIN procs : OnReadyOutput(i)
    \/ \E q \in OccPorts : OccupantGone(q)

SpecRestartBackend == Init /\ [][NextRestartBackend]_vars

\* One caller that alternates start() and stop(), with a service that can
\* also be killed from outside the supervisor.
NextExit ==
    \/ (task[1].op = "none" \/ (StopOf(1) /\ Done(1))) /\ StartCall(1, 0)
    \/ StartProbe1(1)
    \/ StartKillPort(1)
    \/ StartKillName(1)
    \/ StartProbe2(1)
    \/ StartOf(1) /\ Done(1) /\ StopCall(1)
    \/ StopWait(1)
    \/ StopFinal(1)
    \/ \E i \in DOMAIN procs : ProcListen(i)
    \/ \E i \in DOMAIN procs : ProcDie(i)
    \/ \E i \in DOMAIN procs, sig \in OutsideSignals : ProcKilled(i, sig)
    \/ \E i \in DOMAIN procs : OnExit(i)
    \/ \E i \in DOMAIN procs : OnError(i)
    \/ \E i \in DOMAIN procs : OnReadyOutput(i)
    \/ \E q \in OccPorts : OccupantGone(q)

SpecExit == Init /\ [][NextExit]_vars

(***************************************************************************)
(* Properties.                                                             *)
(***************************************************************************)

\* C1: of two Start() calls, the second made while the first was still
\* suspended in port-conflict resolution (before its spawn), at most one
\* spawns a service process.
C1_ConcurrentStartSpawnsOnce ==
    \A t \in Tasks : \A u \in task[t].conc :
        (StartOf(t) /\ StartOf(u) /\ task[t].spawned # 0)
            => task[u].spawned = 0

\* C2: a Stop() called while a Start() was in flight has not returned as
\* long as that Start() has not reached its end.
C2_StopWaitsForStart ==
    \A t \in Tasks : \A u \in task[t].conc :
        (StopOf(t) /\ Done(t) /\ StartOf(u)) => Done(u)

\* C3: a Stop() called while another Stop() is between its first signal and
\* its return sends no signal and runs no reap while that one is in flight.
C3_OneKillSequence ==
    \A t \in Tasks : \A u \in task[t].conc :
        (StopOf(t) /\ StopOf(u) /\ InFlight(u))
            => (task[t].sigs = <<>> /\ task[t].reaps = 0)

\* C4: while a process is held (a Start() has resolved with the service
\* launched), no step changes the port.
C4_PortStableWhileRunning ==
    [][serverProcess # 0 => port' = port]_vars

\* C5: with the default port held by a foreign process that no reap can
\* kill, a Start() that began on the default port launches the service on
\* a higher port (the port that is current when it returns).
C5_NeverOnOccupiedDefault ==
    \A t \in Tasks :
        (/\ occupant[DefaultPort] = "foreign"
         /\ StartOf(t) /\ Done(t) /\ task[t].p0 = DefaultPort
         /\ task[t].res = "spawned")
            => procs[task[t].spawned].lport > DefaultPort

\* A step in which the Stop() of caller t returns.
StopReturns(t) ==
    /\ StopCall(t) \/ StopWait(t) \/ StopFinal(t)
    /\ task'[t].pc = "done"

\* C6: when a Stop() returns true, isRunning() is false in the state it
\* leaves, and it stays false until a process is spawned.
C6_NotRunningAfterStop ==
    [][/\ \A t \in Tasks :
             (StopReturns(t) /\ task'[t].res = "true") => ~isRunning'
       /\ (~isRunning /\ isRunning') => Len(procs') > Len(procs)]_vars

C6_Witness ==
    \E t \in Tasks :
        /\ StopOf(t) /\ Done(t) /\ task[t].res = "true"
        /\ task[t].sigs # <<>>
        /\ Alive(task[t].sigs[1].to)
        /\ ~isRunning

\* C7: after a Stop() and a Start() that spawned process q, when q signals
\* readiness the supervisor is running again: it holds q and is ready.
C7_RunningAfterRestart ==
    [][\A q \in DOMAIN procs :
          (/\ q > 1
           /\ StartOf(1) /\ Done(1) /\ task[1].spawned = q
           /\ Alive(q)
           /\ OnReadyOutput(q))
              => (serverReady' /\ serverProcess' = q)]_vars

\* C8: a Stop() made with no handle held returns true at once, sends no
\* signal, runs no reap and changes nothing.
C8_StopIdleIsNoop ==
    [][\A t \in Tasks :
          (StopCall(t) /\ serverProcess = 0)
              => /\ task'[t].pc = "done" /\ task'[t].res = "true"
                 /\ task'[t].sigs = <<>> /\ task'[t].reaps = 0
                 /\ UNCHANGED <<serverProcess, port, serverReady, procs, occupant>>]_vars

C8_Witness ==
    \E t \in Tasks :
        /\ StopOf(t) /\ Done(t) /\ task[t].res = "true"
        /\ task[t].sigs = <<>> /\ task[t].reaps = 0
        /\ serverProcess = 0

\* The readiness wait of caller 1 has ended with false.
CheckTimedOut ==
    task[1].op = "check" /\ Done(1) /\ task[1].res = "false"

\* The Stop() of caller 2, made after the readiness wait, has returned and
\* has sent a signal (a handle was held when it was called).
StopAfterTimeout ==
    CheckTimedOut /\ StopOf(2) /\ Done(2) /\ task[2].sigs # <<>>

\* C9 (as stated): when the readiness wait has ended with false on a live
\* process, it has made maxAttempts rounds and the handle is still held,
\* and the Stop() that follows returns true with the process terminated.
C9_StopTerminatesAfterTimeout ==
    /\ (CheckTimedOut /\ Alive(1) /\ task[2].op = "none")
          => (task[1].attempt = maxAttempts /\ serverProcess = 1)
    /\ StopAfterTimeout => (task[2].res = "true" /\ ~Alive(1))

\* C9 (amended): when the readiness wait has ended with false on a live
\* process, it has made maxAttempts rounds and the handle is still held;
\* the Stop() that follows signals the process, returns true and leaves no
\* handle, and the process is terminated unless it has survived all
\* maxKillAttempts signals and the by-name reap.
C9_StopReclaimsAfterTimeout ==
    /\ (CheckTimedOut /\ Alive(1) /\ task[2].op = "none")
          => (task[1].attempt = maxAttempts /\ serverProcess = 1)
    /\ StopAfterTimeout
          => /\ task[2].res = "true" /\ serverProcess = 0
             /\ task[2].sigs[1].to = 1
             /\ Alive(1) => (Len(task[2].sigs) = maxKillAttempts
                               /\ task[2].reaps = 1)

C9_Witness ==
    /\ StopAfterTimeout
    /\ task[1].attempt = maxAttempts
    /\ task[2].res = "true"
    /\ ~Alive(1)

\* A Stop() has made at most maxKillAttempts signal-then-wait rounds and
\* at most one by-name reap, and one that ended without the reap after a
\* forceful signal has returned true.
StopBounded ==
    \A t \in Tasks :
        StopOf(t) =>
            /\ task[t].attempt <= maxKillAttempts
            /\ Len(task[t].sigs) <= maxKillAttempts
            /\ task[t].reaps <= 1
            /\ (Done(t) /\ Len(task[t].sigs) >= 2 /\ task[t].reaps = 0)
                  => task[t].res = "true"

\* C10: every Stop() returns, after at most maxKillAttempts
\* signal-then-wait rounds and at most one by-name reap, whatever the
\* process does with the signals; it returns true when the process ignored
\* the graceful signal and died on a forceful one.
C10_StopTerminates ==
    /\ []StopBounded
    /\ \A t \in Tasks :
          (StopOf(t) /\ InFlight(t)) ~> (StopOf(t) /\ Done(t))

C10_Witness ==
    \E t \in Tasks :
        /\ StopOf(t) /\ Done(t) /\ task[t].res = "true"
        /\ Len(task[t].sigs) >= 2 /\ task[t].reaps = 0
        /\ task[t].sigs[1].sig = "SIGTERM"
        /\ task[t].sigs[2].sig = "SIGKILL"
        /\ ~Alive(task[t].sigs[1].to)

\* C11: when the service was launched by a Start() on the default port,
\* held by nobody else, and emits the readiness phrase on stdout or stderr,
\* isReady() returns true from then on and the port is DefaultPort.
C11_ReadyOnMarker ==
    [][\A q \in DOMAIN procs : \A c \in Chunks :
          (/\ c.phrase /\ OnOutput(q, c)
           /\ serverProcess = q /\ Alive(q)
           /\ StartOf(1) /\ Done(1) /\ task[1].spawned = q
           /\ task[1].p0 = DefaultPort
           /\ occupant[DefaultPort] = "none")
              => (isReadyResults' = {TRUE} /\ port' = DefaultPort)]_vars

\* C12: a Start() called while another Start() is in flight or while a
\* handle is held returns at once and changes nothing, with or without a
\* port argument.
C12_ReentrantStartIsNoop ==
    [][\A t \in Tasks : \A a \in PortArgs :
          (/\ StartCall(t, a)
           /\ \/ serverProcess # 0
              \/ \E u \in Tasks \ {t} : StartOf(u) /\ InFlight(u))
              => /\ task'[t].pc = "done" /\ task'[t].res = "noop"
                 /\ UNCHANGED <<serverProcess, port, serverReady, procs, occupant>>]_vars

\* What isReady() does when the flag is cached, and when the health request
\* it has sent is settled: one request per call, true and the flag set on
\* a 200 answer of the polled port only, false with the flag left as it is
\* otherwise.
IsReadyCachedAndPoll(t) ==
    /\ (IsReadyCall(t) /\ serverReady)
          => (task'[t].pc = "done" /\ task'[t].res = "true" /\ task'[t].arg = 0)
    /\ IsReadyPoll(t)
          => /\ task'[t].pc = "done" /\ task'[t].arg = task[t].arg
             /\ task'[t].res = "true" <=> task'[t].status = "200"
             /\ task'[t].res = "true" => serverReady'
             /\ task'[t].res = "false" => serverReady' = serverReady

\* C13 (as stated): isReady() returns true without a request when the flag
\* is cached, and in every other case sends one health request to the
\* current port and answers by its outcome.
C13_IsReadyPollsUnlessCached ==
    [][\A t \in Tasks :
          /\ IsReadyCachedAndPoll(t)
          /\ (IsReadyCall(t) /\ ~serverReady)
                => (task'[t].pc = "poll" /\ task'[t].arg = port)]_vars

\* C13 (amended): as stated, except that with the flag not cached and no
\* handle held isReady() returns false without a request; the request is
\* sent when a handle is held.
C13_IsReadyPollsWhenHeld ==
    [][\A t \in Tasks :
          /\ IsReadyCachedAndPoll(t)
          /\ (IsReadyCall(t) /\ ~serverReady /\ serverProcess = 0)
                => /\ task'[t].pc = "done" /\ task'[t].res = "false"
                   /\ task'[t].arg = 0
          /\ (IsReadyCall(t) /\ ~serverReady /\ serverProcess # 0)
                => (task'[t].pc = "poll" /\ task'[t].arg = port)
          /\ (IsReadyCall(t) \/ IsReadyPoll(t))
                => UNCHANGED <<serverProcess, port, procs, occupant>>]_vars

\* An isReady() call has returned false on a non-200 answer of the current
\* port, with the flag still false and the handle held.
C13_Witness ==
    /\ task[2].op = "isready" /\ Done(2)
    /\ task[2].res = "false" /\ task[2].status = "503"
    /\ task[2].arg = port
    /\ ~serverReady /\ serverProcess # 0

\* The signal-0 existence check of the held process fails: a pid that no
\* process, dead or alive, answers to.
ExistenceCheckFails ==
    /\ serverProcess \in DOMAIN procs
    /\ procs[serverProcess].st = "gone"
    /\ platform # "win32"

C15_ExitMovesToStopped ==
    [][/\ \A i \in DOMAIN procs :
             (OnExit(i) /\ serverProcess = i)
                => /\ serverProcess' = 0 /\ ~serverReady'
                   /\ Len(procs') = Len(procs)
                   /\ UNCHANGED <<port, task, occupant>>
       /\ Len(procs') > Len(procs)
             => \E t \in Tasks : StartProbe1(t) \/ StartProbe2(t)]_vars

\* The service, started and never stopped, has exited: no handle,
\* readiness false, and no second process.
C15_Witness ==
    /\ StartOf(1) /\ Done(1) /\ task[1].spawned = 1
    /\ Len(procs) = 1 /\ procs[1].st = "gone"
    /\ serverProcess = 0 /\ ~serverReady

\* C16: a Stop() returns false only from its pid test, with a handle that
\* has no pid and no signal sent; a Stop() that has sent a signal returns
\* true, also through the final reap with the process still alive.
C16_StopFalseOnlyWithoutPid ==
    [][\A t \in Tasks :
          StopReturns(t) =>
             /\ task'[t].res \in {"true", "false"}
             /\ task'[t].res = "false" =>
                   /\ StopCall(t)
                   /\ serverProcess \in DOMAIN procs
                   /\ procs[serverProcess].st = "nopid"
                   /\ task'[t].sigs = <<>> /\ task'[t].reaps = 0
                   /\ serverProcess' = 0 /\ ~serverReady'
             /\ task'[t].sigs # <<>> => task'[t].res = "true"]_vars

\* A Stop() has returned true from the final reap with the process it
\* signalled in every attempt still alive.
C16_Witness ==
    \E t \in Tasks :
        /\ StopOf(t) /\ Done(t) /\ task[t].res = "true"
        /\ Len(task[t].sigs) = maxKillAttempts /\ task[t].reaps = 1
        /\ \A k \in DOMAIN task[t].sigs : Alive(task[t].sigs[k].to)
        /\ serverProcess = 0

\* C17: a Start() whose launch fails (the executable is missing, or the OS
\* does not create the process) ends with no handle held and readiness
\* false, and with the error passed on to its caller.
C17_LaunchErrorSurfaced ==
    [][\A t \in Tasks :
          (/\ StartProbe1(t) \/ StartProbe2(t)
           /\ task'[t].pc = "done"
           /\ ~serverExists \/ ~spawnOk)
              => /\ task'[t].rejected
                 /\ serverProcess' = 0 /\ ~serverReady']_vars

\* C18: a Start() called after the readiness wait has ended with false
\* (after a launch error whose 'error' event has been handled, or after the
\* timeout with the handle retained) runs a start cycle: it goes on to
\* probe the port.
C18_StartFromFailedRuns ==
    [][(/\ task[1].op = "check" /\ Done(1) /\ task[1].res = "false"
        /\ \A i \in DOMAIN procs : procs[i].st # "nopid"
        /\ StartCall(1, 0))
          => task'[1].pc = "probe1"]_vars

\* C19: when Start(P) is called with P not bound and returns with the
\* service launched, P is bound.
C19_PortBoundAfterStart ==
    [][\A t \in Tasks :
          (/\ StartProbe1(t)
           /\ serverExists /\ spawnOk
           /\ task[t].arg # 0 /\ port = task[t].arg
           /\ ~task[t].inuse /\ ~isPortInUse(task[t].arg)
           /\ task'[t].pc = "done")
              => isPortInUse(task[t].arg)']_vars

\* C20: the by-port reap run on a port that no process listens on reports
\* success: the Start() that ran it goes on to its second probe without
\* falling back to the by-name reap.
C20_ReapNothingIsSuccess ==
    [][\A t \in Tasks :
          (StartKillPort(t) /\ ~isPortInUse(task[t].arg))
              => task'[t].pc = "probe2"]_vars

\* C21: a Start() increments the port only after it has run the by-port
\* reap and the by-name reap and has then probed the port as still bound.
C21_IncrementAfterBothReaps ==
    [][\A t \in Tasks :
          (StartProbe2(t) /\ port' # port)
              => (task[t].inuse /\ task[t].reaps >= 1)]_vars

\* C22: the port a Start() launches the service with is the port that this
\* Start() probed last, and that probe reported it free.
C22_LaunchOnProbedFreePort ==
    [][\A t \in Tasks :
          (/\ StartProbe1(t) \/ StartProbe2(t)
           /\ Len(procs') > Len(procs))
              => /\ procs'[Len(procs')].lport = task[t].p0
                 /\ ~task[t].inuse]_vars

\* C23: within one Stop() the first signal sent is the graceful one, every
\* later signal is a forceful one, and the by-name reap is run only when
\* all maxKillAttempts attempts have been made.
C23_GracefulBeforeForceful ==
    \A t \in Tasks :
        StopOf(t) =>
            /\ task[t].sigs # <<>> => task[t].sigs[1].sig = "SIGTERM"
            /\ \A k \in 2..Len(task[t].sigs) : task[t].sigs[k].sig # "SIGTERM"
            /\ task[t].pc = "final" => task[t].attempt = maxKillAttempts

\* C24: a Stop() whose process is still there after all maxKillAttempts
\* attempts runs the by-name reap, and when the reap has ended it returns
\* true and leaves no handle, whatever the reap reported and whether or not
\* the process is dead.
C24_FinalReapReportsSuccess ==
    [][\A t \in Tasks :
          /\ (/\ StopWait(t)
              /\ task[t].attempt = maxKillAttempts
              /\ isProcessRunning(task[t].pid))
                => /\ task'[t].pc = "final"
                   /\ task'[t].reaps = task[t].reaps + 1
                   /\ UNCHANGED <<serverProcess, serverReady, procs>>
          /\ StopFinal(t)
                => /\ task'[t].pc = "done" /\ task'[t].res = "true"
                   /\ serverProcess' = 0 /\ ~serverReady']_vars

\* A Stop() has returned true from the final reap and the process it was
\* called for is alive and still listening on its port.
C24_Witness ==
    \E t \in Tasks :
        /\ StopOf(t) /\ Done(t) /\ task[t].res = "true"
        /\ task[t].reaps = 1
        /\ Alive(task[t].sigs[1].to)
        /\ procs[task[t].sigs[1].to].listening
        /\ serverProcess = 0

\* C25: a step that clears the handle while the process it refers to is
\* alive is taken after a reap attempt against that process: a Stop() has
\* sent it a signal or has run the by-name reap.
C25_NoDropWithoutReap ==
    [][(serverProcess # 0 /\ serverProcess' = 0 /\ Alive(serverProcess))
          => \E t \in Tasks :
                /\ StopOf(t)
                /\ \/ \E k \in DOMAIN task[t].sigs :
                         task[t].sigs[k].to = serverProcess
                   \/ task[t].reaps >= 1]_vars

\* C26: once the application has asked to quit, the readiness wait sends
\* no new health request (the request in progress may end), and the
\* process it waits for stays held until the Stop() of the quit handler
\* takes it.
C26_WaitAbandonsOnQuit ==
    [][(isQuitting /\ task[1].op = "check")
          => /\ ~(task[1].pc # "health" /\ task'[1].pc = "health")
             /\ (CheckHealth(1) \/ CheckSleep(1))
                   => serverProcess' = serverProcess]_vars

\* C27: an output chunk that holds the readiness phrase, on stdout or on
\* stderr and whatever else it holds, sets readiness and sends the ready
\* notification.
C27_PhraseSetsReadyAndNotifies ==
    [][\A i \in DOMAIN procs : \A c \in Chunks :
          (c.phrase /\ OnOutput(i, c))
              => (serverReady' /\ procs'[i].notified)]_vars

\* C28: the listener's run on an error-level chunk (stderr, none of the
\* informational markers) leaves handle, port and readiness as they were,
\* and every call where it was.
C28_ErrorOutputChangesNothing ==
    [][\A i \in DOMAIN procs : \A c \in Chunks :
          (c.stream = "stderr" /\ ~c.info /\ OnOutput(i, c))
              => UNCHANGED <<serverProcess, port, serverReady, task>>]_vars

\* The held process has written an error-level chunk (one that even held
\* the readiness phrase); the handle is held and readiness is false.
C28_Witness ==
    /\ Alive(serverProcess)
    /\ procs[serverProcess].unheard
    /\ ~serverReady
    /\ port = procs[serverProcess].lport

\* C29: the exit of a child is reported as abnormal exactly when it is not
\* clean, where clean is: exit code 0, or terminated by a SIGTERM or
\* SIGKILL that the supervisor sent.
C29_CleanExitClassification ==
    [][\A i \in DOMAIN procs :
          OnExit(i) =>
             \A e \in ExitStatuses(i) :
                exitWarns(e) <=>
                   ~(\/ e.code = 0
                     \/ /\ e.signal \in {"SIGTERM", "SIGKILL"}
                        /\ procs[i].extsig = "")]_vars

\* C30: an event of a health request comes only while its isReady() call
\* is waiting and leaves the request closed; on the timeout the request is
\* destroyed, false is returned and readiness is left as it was.  Hence no
\* isReady() call that has returned has an open request, and no answer
\* that comes after the return sets readiness.
C30_TimeoutDestroysRequest ==
    [][\A t \in Tasks :
          /\ IsReadyPoll(t) =>
                /\ task[t].pc = "poll" /\ task'[t].pc = "done"
                /\ task'[t].req # "open"
                /\ task'[t].status = "timeout" =>
                      /\ task'[t].req = "destroyed"
                      /\ task'[t].res = "false"
                      /\ serverReady' = serverReady
          /\ (task'[t].op = "isready" /\ task'[t].pc = "done")
                => task'[t].req # "open"]_vars

\* An isReady() call has returned false on the timeout with its request
\* destroyed, and the service now answers on the polled port: a late
\* answer would have been a 200.
C30_Witness ==
    /\ task[2].op = "isready" /\ Done(2)
    /\ task[2].res = "false" /\ task[2].status = "timeout"
    /\ task[2].req = "destroyed"
    /\ HealthOk(task[2].arg)
    /\ ~serverReady

\* C31: at any time at most one process spawned by the supervisor is alive.
C31_AtMostOneAlive ==
    Cardinality({i \in DOMAIN procs : Alive(i)}) <= 1

\* C32: the exit or error notification of an earlier process leaves the
\* handle and the readiness flag of the live process spawned after it, and
\* now held, as they are.
C32_StaleExitKeepsHandle ==
    [][\A i \in DOMAIN procs :
          (/\ OnExit(i) \/ OnError(i)
           /\ serverProcess > i /\ Alive(serverProcess))
              => UNCHANGED <<serverProcess, serverReady>>]_vars

\* C33: a Stop() that was called with process P held sends its signals to
\* P only, and a step of it that clears the handle clears the handle of P.
C33_StopTouchesOwnProcessOnly ==
    [][\A t \in Tasks :
          (StopWait(t) \/ StopFinal(t))
              => /\ Len(task'[t].sigs) > Len(task[t].sigs)
                       => task'[t].sigs[Len(task'[t].sigs)].to = task[t].pid
                 /\ serverProcess' # serverProcess
                       => serverProcess = task[t].pid]_vars

C35_PortReapSparesHeldProcess ==
    [][\A t \in Tasks :
          (StartKillPort(t) /\ Alive(serverProcess))
              => procs'[serverProcess].st = "alive"]_vars

\* C36: the readiness flag is true only while a handle is held.
C36_ReadyOnlyWithHandle ==
    serverReady => serverProcess # 0

\* C37: with Start() called without a port argument, no step lowers the
\* port; the port changes only in the step of a Start() whose second probe
\* found it still bound, which raises it by exactly 1.
C37_PortNeverDecreases ==
    [][/\ port' >= port
       /\ port' # port
             => /\ port' = port + 1
                /\ \E t \in Tasks : StartProbe2(t) /\ task[t].inuse
       /\ \A t \in Tasks :
             (StartProbe2(t) /\ task[t].inuse) => port' = port + 1]_vars

\* The port has been raised twice, by two Start() calls with a Stop()
\* between them, and the service is held on it.
C37_Witness ==
    /\ port = DefaultPort + 2
    /\ StartOf(1) /\ Done(1)
    /\ serverProcess # 0
    /\ procs[serverProcess].lport = port

\* The quit handlers that have called Stop(): a handler calls it only when
\* isRunning(), so its Stop() has sent a signal.
StopInvokedBy ==
    {t \in Tasks : task[t].op \in {"stop", "exited"} /\ task[t].sigs # <<>>}

\* C38: of the tray Exit handler and the 'before-quit' handler (entered
\* again by the deferred app.quit()) at most one calls Stop(), once; and
\* after a quit request the application exits.
C38_ShutdownCleanupOnce ==
    /\ [](/\ Cardinality(StopInvokedBy) <= 1
          /\ \A t \in StopInvokedBy : task[t].reaps <= 1
                /\ Len(task[t].sigs) <= maxKillAttempts)
    /\ isQuitting ~> appExited

\* The tray handler has called Stop() on the running service, a quit
\* requested meanwhile was let through by the 'before-quit' handler without
\* a second Stop(), and the application has exited.
C38_Witness ==
    /\ task[1].op = "stop" /\ task[1].sigs # <<>>
    /\ task[2].op = "exited" /\ task[2].sigs = <<>>
    /\ appExited

\* C39: 'restart-backend-server' replies success = true only if a backend
\* process is running when it returns, and replies failure when the start()
\* inside it has failed to launch.
C39_RestartReportsLaunchFailure ==
    [][\A t \in Tasks : RestartReturn(t)
          => /\ task'[t].status = "success" => isRunning
             /\ task[t].res = "threw" => task'[t].status = "failure"]_vars

====
